---- MODULE Spec2Model ----
(***************************************************************************)
(* Model of chord-progression-mcp: the music-theory engine of              *)
(* src/createChordProgression.js (parseKey, getScaleDegreeNote,            *)
(* getChordNotes, getProgressionDegrees, createChordProgression) and the   *)
(* get-chord-progression tool handler of src/index.js.                     *)
(*                                                                         *)
(* A JavaScript string is modelled as the sequence of its characters, so   *)
(* that trim, toLowerCase, includes, the stripping regex and charAt are    *)
(* computed as the code computes them.                                     *)
(***************************************************************************)
EXTENDS Integers, Sequences, FiniteSets, TLC

(***************************************************************************)
(* Bounds of the model.                                                    *)
(***************************************************************************)
\* numChords arguments of a direct call range over -1 .. MaxNumChordsArg
MaxNumChordsArg == 8
\* scale degrees handed to getScaleDegreeNote / getChordNotes: 1 .. MaxDegree
MaxDegree == 7

(***************************************************************************)
(* JavaScript string primitives.                                           *)
(***************************************************************************)
UpperLetters ==
  <<"A","B","C","D","E","F","G","H","I","J","K","L","M",
    "N","O","P","Q","R","S","T","U","V","W","X","Y","Z">>
LowerLetters ==
  <<"a","b","c","d","e","f","g","h","i","j","k","l","m",
    "n","o","p","q","r","s","t","u","v","w","x","y","z">>

WhiteSpace == {" ", "\t", "\n"}

\* String.prototype.toLowerCase / toUpperCase on one character
toLowerCaseChar(c) ==
  IF \E i \in 1..26 : UpperLetters[i] = c
  THEN LowerLetters[CHOOSE i \in 1..26 : UpperLetters[i] = c]
  ELSE c
toUpperCaseChar(c) ==
  IF \E i \in 1..26 : LowerLetters[i] = c
  THEN UpperLetters[CHOOSE i \in 1..26 : LowerLetters[i] = c]
  ELSE c

toLowerCase(s) == [i \in 1..Len(s) |-> toLowerCaseChar(s[i])]

\* String.prototype.trim
trim(s) ==
  LET keep == {i \in 1..Len(s) : s[i] \notin WhiteSpace}
  IN IF keep = {} THEN <<>>
     ELSE LET lo == CHOOSE i \in keep : \A j \in keep : i <= j
              hi == CHOOSE i \in keep : \A j \in keep : j <= i
          IN SubSeq(s, lo, hi)

\* String.prototype.includes
includes(s, sub) ==
  \E i \in 1..(Len(s) - Len(sub) + 1) : SubSeq(s, i, i + Len(sub) - 1) = sub

\* root.charAt(0).toUpperCase() + root.slice(1)
capitalizeFirst(s) ==
  IF s = <<>> THEN <<>> ELSE <<toUpperCaseChar(s[1])>> \o Tail(s)

(***************************************************************************)
(* The module-level tables.                                                *)
(***************************************************************************)
NOTE_TO_MIDI ==
  (<<"C">> :> 60) @@ (<<"C","#">> :> 61) @@ (<<"D","b">> :> 61) @@
  (<<"D">> :> 62) @@ (<<"D","#">> :> 63) @@ (<<"E","b">> :> 63) @@
  (<<"E">> :> 64) @@ (<<"F">> :> 65) @@ (<<"F","#">> :> 66) @@
  (<<"G","b">> :> 66) @@ (<<"G">> :> 67) @@ (<<"G","#">> :> 68) @@
  (<<"A","b">> :> 68) @@ (<<"A">> :> 69) @@ (<<"A","#">> :> 70) @@
  (<<"B","b">> :> 70) @@ (<<"B">> :> 71)

MAJOR_TRIAD == <<0, 4, 7>>
MINOR_TRIAD == <<0, 3, 7>>
MAJOR_SCALE == <<0, 2, 4, 5, 7, 9, 11>>
MINOR_SCALE == <<0, 2, 3, 5, 7, 8, 10>>

\* the tables as the module holds them after it is loaded
ModuleTables ==
  [NOTE_TO_MIDI |-> NOTE_TO_MIDI,
   MAJOR_TRIAD  |-> MAJOR_TRIAD,
   MINOR_TRIAD  |-> MINOR_TRIAD,
   MAJOR_SCALE  |-> MAJOR_SCALE,
   MINOR_SCALE  |-> MINOR_SCALE]

(***************************************************************************)
(* Property lookup on an object literal.  NOTE_TO_MIDI and keyPrefs are    *)
(* plain object literals, so obj[k] also finds what Object.prototype       *)
(* holds: for these keys the lookup yields an object or a function, which  *)
(* is neither undefined nor falsy.  Any other absent key yields undefined. *)
(***************************************************************************)
OBJECT_PROTOTYPE_KEYS ==
  { <<"_","_","p","r","o","t","o","_","_">>,
    <<"c","o","n","s","t","r","u","c","t","o","r">>,
    <<"t","o","S","t","r","i","n","g">>,
    <<"v","a","l","u","e","O","f">> }

hasOwn(obj, k)      == k \in DOMAIN obj
isInherited(obj, k) == ~hasOwn(obj, k) /\ k \in OBJECT_PROTOTYPE_KEYS
isUndefined(obj, k) == ~hasOwn(obj, k) /\ k \notin OBJECT_PROTOTYPE_KEYS
\* !obj[k] : undefined and 0 are the falsy values that can occur
isFalsy(obj, k) ==
  \/ isUndefined(obj, k)
  \/ hasOwn(obj, k) /\ obj[k] = 0

\* the value undefined where a note name is expected; used as a property
\* key it is the string "undefined", which no table holds
UNDEFINED == <<"undefined">>

(***************************************************************************)
(* Errors and results of the functions that can throw.                     *)
(***************************************************************************)
ERR_KEY_FORMAT == "Invalid key format"
ERR_ROOT_NOTE  == "Invalid root note"
ERR_NUM_CHORDS == "numChords must be between 2 and 6"
ERR_NOTE_NAME  == "Invalid note name"

NoError == [kind |-> "none", detail |-> <<>>]
Error(kind, detail) == [kind |-> kind, detail |-> detail]

Return(v) == [threw |-> FALSE, val |-> v, err |-> NoError]
Throw(kind, detail) == [threw |-> TRUE, val |-> <<>>, err |-> Error(kind, detail)]

(***************************************************************************)
(* parseKey                                                                *)
(***************************************************************************)
minorIndicators == << <<"m","i","n","o","r">>, <<"m","i","n">>, <<"m">> >>

\* the alternatives of /minor|min|major|maj|m|M/gi, in the order written
stripAlternatives ==
  << <<"m","i","n","o","r">>, <<"m","i","n">>, <<"m","a","j","o","r">>,
     <<"m","a","j">>, <<"m">>, <<"M">> >>

\* does alternative pat match s at position i (flag i: case-insensitive)
matchesAt(s, i, pat) ==
  /\ i + Len(pat) - 1 <= Len(s)
  /\ toLowerCase(SubSeq(s, i, i + Len(pat) - 1)) = toLowerCase(pat)

\* index of the first alternative matching at i, 0 when none does
firstAlternativeAt(s, i, alts) ==
  LET hits == {j \in 1..Len(alts) : matchesAt(s, i, alts[j])}
  IN IF hits = {} THEN 0 ELSE CHOOSE j \in hits : \A k \in hits : j <= k

RECURSIVE replaceAll(_, _, _)
\* s.replace(/alt1|alt2|.../gi, '') scanning from position i
replaceAll(s, i, alts) ==
  IF i > Len(s) THEN <<>>
  ELSE LET j == firstAlternativeAt(s, i, alts)
       IN IF j = 0
          THEN <<s[i]>> \o replaceAll(s, i + 1, alts)
          ELSE replaceAll(s, i + Len(alts[j]), alts)

\* a variant of the stripping that forgets the bare m / M alternatives
stripModeIndicatorsNoBareM(normalized) ==
  trim(replaceAll(normalized, 1, SubSeq(stripAlternatives, 1, 4)))

\* normalized.replace(/minor|min|major|maj|m|M/gi, '').trim()
stripModeIndicators(normalized) ==
  trim(replaceAll(normalized, 1, stripAlternatives))

\* minorIndicators.some(i => normalized.toLowerCase().includes(i.toLowerCase()))
detectMinor(normalized) ==
  \E k \in 1..Len(minorIndicators) :
     includes(toLowerCase(normalized), toLowerCase(minorIndicators[k]))

\* normalized.match(/^([A-G][#b]?)(m|M)?$/i): [matched, note, marker]
noteMatch(normalized) ==
  LET n      == Len(normalized)
      isNote(c)  == toLowerCaseChar(c) \in {"a","b","c","d","e","f","g"}
      isAcc(c)   == c = "#" \/ toLowerCaseChar(c) = "b"
      isM(c)     == toLowerCaseChar(c) = "m"
      none   == [matched |-> FALSE, note |-> <<>>, marker |-> <<>>]
  IN IF n = 0 \/ n > 3 THEN none
     ELSE IF ~isNote(normalized[1]) THEN none
     ELSE IF n = 1 THEN [matched |-> TRUE, note |-> normalized, marker |-> <<>>]
     ELSE IF n = 2 /\ isAcc(normalized[2])
          THEN [matched |-> TRUE, note |-> normalized, marker |-> <<>>]
     ELSE IF n = 2 /\ isM(normalized[2])
          THEN [matched |-> TRUE, note |-> SubSeq(normalized, 1, 1),
                marker |-> SubSeq(normalized, 2, 2)]
     ELSE IF n = 3 /\ isAcc(normalized[2]) /\ isM(normalized[3])
          THEN [matched |-> TRUE, note |-> SubSeq(normalized, 1, 2),
                marker |-> SubSeq(normalized, 3, 3)]
     ELSE none

NullKey == [isNull |-> TRUE, root |-> <<>>, isMinor |-> FALSE]
KeyInfo(root, isMinor) == [isNull |-> FALSE, root |-> root, isMinor |-> isMinor]

parseKey(keyString) ==
  LET normalized == trim(keyString)
      isMinor    == detectMinor(normalized)
      root       == stripModeIndicators(normalized)
  IN IF root = <<>>
     THEN LET m == noteMatch(normalized)
          IN IF m.matched
             THEN IF m.marker # <<>> /\ toLowerCase(m.marker) = <<"m">>
                  THEN KeyInfo(capitalizeFirst(m.note), TRUE)
                  ELSE KeyInfo(capitalizeFirst(m.note), FALSE)
             ELSE NullKey
     ELSE KeyInfo(capitalizeFirst(root), isMinor)

(***************************************************************************)
(* noteToMidi                                                              *)
(***************************************************************************)
DefaultOctave == 4

\* noteName is a name of keyPrefs or midiToNote, or undefined: none of them
\* is a key that Object.prototype holds, so baseNote is an own entry or undefined
noteToMidi(T, noteName, octave) ==
  IF isUndefined(T.NOTE_TO_MIDI, noteName)
  THEN Throw(ERR_NOTE_NAME, noteName)
  ELSE Return(T.NOTE_TO_MIDI[noteName] + (octave - 4) * 12)

(***************************************************************************)
(* getScaleDegreeNote                                                      *)
(***************************************************************************)
\* midiToNote, indexed by pitch class 0..11 (here 1..12)
midiToNote ==
  << <<"C">>, <<"C","#">>, <<"D">>, <<"D","#">>, <<"E">>, <<"F">>,
     <<"F","#">>, <<"G">>, <<"G","#">>, <<"A">>, <<"A","#">>, <<"B">> >>

keyPrefs ==
  (<<"C">>     :> << <<"C">>, <<"D">>, <<"E">>, <<"F">>, <<"G">>, <<"A">>, <<"B">> >>) @@
  (<<"D","b">> :> << <<"D","b">>, <<"E","b">>, <<"F">>, <<"G","b">>, <<"A","b">>, <<"B","b">>, <<"C">> >>) @@
  (<<"D">>     :> << <<"D">>, <<"E">>, <<"F","#">>, <<"G">>, <<"A">>, <<"B">>, <<"C","#">> >>) @@
  (<<"E","b">> :> << <<"E","b">>, <<"F">>, <<"G">>, <<"A","b">>, <<"B","b">>, <<"C">>, <<"D">> >>) @@
  (<<"E">>     :> << <<"E">>, <<"F","#">>, <<"G","#">>, <<"A">>, <<"B">>, <<"C","#">>, <<"D","#">> >>) @@
  (<<"F">>     :> << <<"F">>, <<"G">>, <<"A">>, <<"B","b">>, <<"C">>, <<"D">>, <<"E">> >>) @@
  (<<"F","#">> :> << <<"F","#">>, <<"G","#">>, <<"A","#">>, <<"B">>, <<"C","#">>, <<"D","#">>, <<"E","#">> >>) @@
  (<<"G","b">> :> << <<"G","b">>, <<"A","b">>, <<"B","b">>, <<"C","b">>, <<"D","b">>, <<"E","b">>, <<"F">> >>) @@
  (<<"G">>     :> << <<"G">>, <<"A">>, <<"B">>, <<"C">>, <<"D">>, <<"E">>, <<"F","#">> >>) @@
  (<<"A","b">> :> << <<"A","b">>, <<"B","b">>, <<"C">>, <<"D","b">>, <<"E","b">>, <<"F">>, <<"G">> >>) @@
  (<<"A">>     :> << <<"A">>, <<"B">>, <<"C","#">>, <<"D">>, <<"E">>, <<"F","#">>, <<"G","#">> >>) @@
  (<<"B","b">> :> << <<"B","b">>, <<"C">>, <<"D">>, <<"E","b">>, <<"F">>, <<"G">>, <<"A">> >>) @@
  (<<"B">>     :> << <<"B">>, <<"C","#">>, <<"D","#">>, <<"E">>, <<"F","#">>, <<"G","#">>, <<"A","#">> >>)

\* ((degree - 1) % 7 + 7) % 7
degreeIndexOf(degree) == (((degree - 1) % 7) + 7) % 7

getScaleDegreeNote(T, root, degree, isMinor) ==
  LET scale == IF isMinor THEN T.MINOR_SCALE ELSE T.MAJOR_SCALE
  IN IF isUndefined(T.NOTE_TO_MIDI, root)
     THEN Throw(ERR_ROOT_NOTE, root)
     ELSE IF isInherited(T.NOTE_TO_MIDI, root)
     \* rootMidi is an object: midiNote is not a number, noteInOctave is NaN,
     \* midiToNote[NaN] is undefined, and keyPrefs[root] is an inherited
     \* object without the index degreeIndex: undefined || undefined
     THEN Return(UNDEFINED)
     ELSE LET rootMidi        == T.NOTE_TO_MIDI[root]
              degreeIndex     == degreeIndexOf(degree)
              chromaticOffset == scale[degreeIndex + 1]
              midiNote        == rootMidi + chromaticOffset
              noteInOctave    == midiNote % 12
              noteName        == midiToNote[noteInOctave + 1]
          IN IF hasOwn(keyPrefs, root)
             THEN Return(keyPrefs[root][degreeIndex + 1])
             ELSE Return(noteName)

(***************************************************************************)
(* getChordNotes                                                           *)
(***************************************************************************)
\* a variant that forgets the "- 1" of the octave number
noteNameWithOctaveOffByOne(noteMidi) ==
  midiToNote[(noteMidi % 12) + 1] \o <<ToString(noteMidi \div 12)>>

\* noteName + octaveNum for one pitch of the triad
noteNameWithOctave(noteMidi) ==
  LET octaveNum    == (noteMidi \div 12) - 1
      noteInOctave == noteMidi % 12
  IN midiToNote[noteInOctave + 1] \o <<ToString(octaveNum)>>

getChordNotes(T, root, degree, isMinor, octave) ==
  LET chordRoot == getScaleDegreeNote(T, root, degree, isMinor)
  IN IF chordRoot.threw THEN chordRoot
     ELSE LET isChordMinor == IF isMinor THEN degree \in {1, 4, 5}
                                         ELSE degree \in {2, 3, 6}
              intervals    == IF isChordMinor THEN T.MINOR_TRIAD ELSE T.MAJOR_TRIAD
              rootMidi     == noteToMidi(T, chordRoot.val, octave)
          IN IF rootMidi.threw THEN rootMidi
             ELSE Return([i \in 1..Len(intervals) |->
                            noteNameWithOctave(rootMidi.val + intervals[i])])

(***************************************************************************)
(* getProgressionDegrees                                                   *)
(***************************************************************************)
patterns ==
  (2 :> <<1, 5>>) @@ (3 :> <<1, 4, 5>>) @@ (4 :> <<1, 4, 5, 1>>) @@
  (5 :> <<1, 6, 4, 5, 1>>) @@ (6 :> <<1, 6, 4, 5, 1, 4>>)

getProgressionDegrees(numChords) ==
  IF numChords < 2 \/ numChords > 6
  THEN Throw(ERR_NUM_CHORDS, <<ToString(numChords)>>)
  ELSE Return(patterns[numChords])

(***************************************************************************)
(* createChordProgression, as one function of its arguments.               *)
(* The MIDI writer is a library: a track is the sequence of the events     *)
(* added to it, and the file built from it holds that track.               *)
(***************************************************************************)
DefaultNumChords == 4
Velocity == 100

NoteEvent(chordNotes) ==
  [pitch |-> chordNotes, duration |-> "1", velocity |-> Velocity]
NewTrack == <<>>
buildFile(track) == [chunk |-> "MTrk", events |-> track]
NoBuffer == [chunk |-> "none", events |-> <<>>]

RECURSIVE addChords(_, _, _, _, _, _)
\* progression.forEach(degree => ...) from position i, events so far in track
addChords(T, root, isMinor, progression, i, track) ==
  IF i > Len(progression) THEN Return(track)
  ELSE LET chordNotes == getChordNotes(T, root, progression[i], isMinor, DefaultOctave)
       IN IF chordNotes.threw THEN chordNotes
          ELSE addChords(T, root, isMinor, progression, i + 1,
                         Append(track, NoteEvent(chordNotes.val)))

createChordProgression(T, key, numChords) ==
  LET keyInfo == parseKey(key)
  IN IF keyInfo.isNull THEN Throw(ERR_KEY_FORMAT, key)
     ELSE IF isFalsy(T.NOTE_TO_MIDI, keyInfo.root)
     THEN Throw(ERR_ROOT_NOTE, keyInfo.root)
     ELSE IF numChords < 2 \/ numChords > 6
     THEN Throw(ERR_NUM_CHORDS, <<ToString(numChords)>>)
     ELSE LET progression == getProgressionDegrees(numChords)
          IN IF progression.threw THEN progression
             ELSE LET track == addChords(T, keyInfo.root, keyInfo.isMinor,
                                         progression.val, 1, NewTrack)
                  IN IF track.threw THEN track
                     ELSE Return(buildFile(track.val))

(***************************************************************************)
(* Inputs.                                                                 *)
(***************************************************************************)
RootNames == DOMAIN NOTE_TO_MIDI

MAJOR_WORD == <<"m","a","j","o","r">>
MAJ_WORD   == <<"m","a","j">>
MINOR_WORD == <<"m","i","n","o","r">>
MIN_WORD   == <<"m","i","n">>

lowerFirst(s) == <<toLowerCaseChar(s[1])>> \o Tail(s)

\* the key strings of the README for root R
MajorForms(R)   == {R \o <<" ">> \o MAJOR_WORD, R \o <<" ">> \o MAJ_WORD}
BareForm(R)     == R
SpacedMinor(R)  == {R \o <<" ">> \o MINOR_WORD, R \o <<" ">> \o MIN_WORD}
CompactMinor(R) == R \o <<"m">>
KeyForms(R) ==
  MajorForms(R) \cup {BareForm(R)} \cup SpacedMinor(R) \cup {CompactMinor(R)}
  \cup SpacedMinor(lowerFirst(R)) \cup {CompactMinor(lowerFirst(R))}

ProtoKey == <<"_","_","p","r","o","t","o","_","_">>
OtherKeys ==
  { <<>>, <<" ", " ">>, MINOR_WORD, MAJ_WORD, <<"m">>, <<"m", " ", "M">>,
    <<"H">>, <<"H">> \o <<" ">> \o MAJOR_WORD, <<"H">> \o <<" ">> \o MINOR_WORD,
    <<"E","#">>, <<"C","b">> \o <<" ">> \o MINOR_WORD,
    <<" ","C"," ">> \o MAJOR_WORD \o <<" ">>,
    <<"A"," ","M","I","N","O","R">>,
    ProtoKey,
    <<"c","o","n","s","t","r","u","c","t","o","r">> }

Keys == (UNION {KeyForms(R) : R \in RootNames}) \cup OtherKeys

\* numChords of a direct call of the exported function: any integer
NumChordsArgs == (-1)..MaxNumChordsArg
\* numChords the tool schema lets through: z.number().int().min(2).max(6)
SchemaNumChords == 2..6

(***************************************************************************)
(* State.                                                                  *)
(***************************************************************************)
VARIABLES
  tables,       \* the module-level tables
  pc,           \* position of the running invocation
  caller,       \* "none", "direct" (the exported function) or "handler"
  key,          \* argument key
  numChordsArg, \* argument numChords: [given, value]
  numChords,    \* parameter numChords after its default
  keyInfo,      \* const keyInfo = parseKey(key)
  progression,  \* const progression
  idx,          \* number of degrees forEach has gone through
  track,        \* const track
  ret,          \* the buffer createChordProgression returned
  err,          \* the error thrown
  response,     \* what the handler returned
  completed,    \* invocations completed so far (saturating)
  call,         \* a single application of a function: its name and arguments
  out           \* and its result

vars == <<tables, pc, caller, key, numChordsArg, numChords, keyInfo, progression,
          idx, track, ret, err, response, completed, call, out>>

\* invocations counted by completed
MaxCompleted == 2

NoResponse == [isError |-> FALSE, content |-> <<>>, audio |-> NoBuffer,
               text |-> "", numChords |-> 0]
NoArg == [given |-> FALSE, value |-> 0]
NoCall == [fn |-> "none", root |-> <<>>, degree |-> 0, isMinor |-> FALSE,
           key |-> <<>>, numChords |-> 0]
NoOut == [done |-> FALSE, res |-> Return(<<>>)]

\* no invocation is running: every local is out of scope
Idle ==
  /\ pc = "idle"
  /\ caller = "none"
  /\ key = <<>>
  /\ numChordsArg = NoArg
  /\ numChords = 0
  /\ keyInfo = NullKey
  /\ progression = <<>>
  /\ idx = 0
  /\ track = <<>>
  /\ ret = NoBuffer
  /\ err = NoError
  /\ response = NoResponse

Init ==
  /\ tables = ModuleTables
  /\ Idle
  /\ completed = 0
  /\ call = NoCall
  /\ out = NoOut

locals == <<keyInfo, progression, idx, track, ret, err, response>>
fixed  == <<tables, completed, call, out>>
args   == <<caller, key, numChordsArg, numChords>>

(***************************************************************************)
(* createChordProgression, step by step.                                   *)
(***************************************************************************)
\* createChordProgression(k, n) called by an importer of the module
DirectCall(k, n) ==
  /\ pc = "idle"
  /\ pc' = "parseKey"
  /\ caller' = "direct"
  /\ key' = k
  /\ numChordsArg' = [given |-> TRUE, value |-> n]
  /\ numChords' = n
  /\ UNCHANGED <<locals, fixed>>

\* createChordProgression(k): numChords = 4
DirectCallDefault(k) ==
  /\ pc = "idle"
  /\ pc' = "parseKey"
  /\ caller' = "direct"
  /\ key' = k
  /\ numChordsArg' = NoArg
  /\ numChords' = DefaultNumChords
  /\ UNCHANGED <<locals, fixed>>

\* throw new Error(...)
Raise(e) ==
  /\ pc' = "thrown"
  /\ err' = e

\* const keyInfo = parseKey(key); if (!keyInfo) throw
ParseKey ==
  /\ pc = "parseKey"
  /\ keyInfo' = parseKey(key)
  /\ IF keyInfo'.isNull
     THEN Raise(Error(ERR_KEY_FORMAT, key))
     ELSE pc' = "validateRoot" /\ err' = err
  /\ UNCHANGED <<args, progression, idx, track, ret, response, fixed>>

\* a variant that checks the chord count before the root
ValidateRootAfterNumChords ==
  /\ pc = "validateRoot"
  /\ IF numChords < 2 \/ numChords > 6
     THEN Raise(Error(ERR_NUM_CHORDS, <<ToString(numChords)>>))
     ELSE IF isFalsy(tables.NOTE_TO_MIDI, keyInfo.root)
     THEN Raise(Error(ERR_ROOT_NOTE, keyInfo.root))
     ELSE pc' = "validateNumChords" /\ err' = err
  /\ UNCHANGED <<args, keyInfo, progression, idx, track, ret, response, fixed>>

\* if (!NOTE_TO_MIDI[root]) throw
ValidateRoot ==
  /\ pc = "validateRoot"
  /\ IF isFalsy(tables.NOTE_TO_MIDI, keyInfo.root)
     THEN Raise(Error(ERR_ROOT_NOTE, keyInfo.root))
     ELSE pc' = "validateNumChords" /\ err' = err
  /\ UNCHANGED <<args, keyInfo, progression, idx, track, ret, response, fixed>>

\* if (numChords < 2 || numChords > 6) throw
ValidateNumChords ==
  /\ pc = "validateNumChords"
  /\ IF numChords < 2 \/ numChords > 6
     THEN Raise(Error(ERR_NUM_CHORDS, <<ToString(numChords)>>))
     ELSE pc' = "getProgressionDegrees" /\ err' = err
  /\ UNCHANGED <<args, keyInfo, progression, idx, track, ret, response, fixed>>

\* const progression = getProgressionDegrees(numChords); const track = new Track()
GetProgressionDegrees ==
  /\ pc = "getProgressionDegrees"
  /\ LET r == getProgressionDegrees(numChords)
     IN IF r.threw
        THEN Raise(r.err) /\ UNCHANGED <<progression, track, idx>>
        ELSE /\ progression' = r.val
             /\ track' = NewTrack
             /\ idx' = 0
             /\ pc' = "forEach"
             /\ err' = err
  /\ UNCHANGED <<args, keyInfo, ret, response, fixed>>

\* a variant that hands back what was built when a chord cannot be built
AddChordReturningPartial ==
  /\ pc = "forEach"
  /\ idx < Len(progression)
  /\ LET chordNotes == getChordNotes(tables, keyInfo.root, progression[idx + 1],
                                     keyInfo.isMinor, DefaultOctave)
     IN IF chordNotes.threw
        THEN /\ pc' = "returned"
             /\ ret' = buildFile(track)
             /\ UNCHANGED <<track, idx>>
        ELSE /\ track' = Append(track, NoteEvent(chordNotes.val))
             /\ idx' = idx + 1
             /\ pc' = pc
             /\ ret' = ret
  /\ UNCHANGED <<args, keyInfo, progression, err, response, fixed>>

\* a variant that flattens the third of the shared MAJOR_TRIAD in place for
\* a minor chord instead of selecting MINOR_TRIAD
AddChordWritingTriad ==
  /\ pc = "forEach"
  /\ idx < Len(progression)
  /\ LET degree == progression[idx + 1]
         isChordMinor == IF keyInfo.isMinor THEN degree \in {1, 4, 5}
                                            ELSE degree \in {2, 3, 6}
         T == IF isChordMinor
              THEN [tables EXCEPT !.MAJOR_TRIAD = [@ EXCEPT ![2] = 3]]
              ELSE tables
         chordNotes == getChordNotes(T, keyInfo.root, degree,
                                     keyInfo.isMinor, DefaultOctave)
     IN /\ tables' = T
        /\ IF chordNotes.threw
           THEN Raise(chordNotes.err) /\ UNCHANGED <<track, idx>>
           ELSE /\ track' = Append(track, NoteEvent(chordNotes.val))
                /\ idx' = idx + 1
                /\ pc' = pc
                /\ err' = err
  /\ UNCHANGED <<args, keyInfo, progression, ret, response, completed, call, out>>

\* one round of progression.forEach: getChordNotes, new NoteEvent, addEvent
AddChord ==
  /\ pc = "forEach"
  /\ idx < Len(progression)
  /\ LET chordNotes == getChordNotes(tables, keyInfo.root, progression[idx + 1],
                                     keyInfo.isMinor, DefaultOctave)
     IN IF chordNotes.threw
        THEN Raise(chordNotes.err) /\ UNCHANGED <<track, idx>>
        ELSE /\ track' = Append(track, NoteEvent(chordNotes.val))
             /\ idx' = idx + 1
             /\ pc' = pc
             /\ err' = err
  /\ UNCHANGED <<args, keyInfo, progression, ret, response, fixed>>

\* new Writer(track).buildFile(); return Buffer.from(buffer)
BuildFile ==
  /\ pc = "forEach"
  /\ idx = Len(progression)
  /\ ret' = buildFile(track)
  /\ pc' = "returned"
  /\ UNCHANGED <<args, keyInfo, progression, idx, track, err, response, fixed>>

(***************************************************************************)
(* The get-chord-progression handler.  The tool's input schema is applied  *)
(* before the callback runs, so the callback sees a string key and a       *)
(* numChords of 2..6, or 4 when the request gave none.                     *)
(***************************************************************************)
HandlerCall(k, n) ==
  /\ pc = "idle"
  /\ pc' = "handler"
  /\ caller' = "handler"
  /\ key' = k
  /\ numChordsArg' = [given |-> TRUE, value |-> n]
  /\ numChords' = n
  /\ UNCHANGED <<locals, fixed>>

HandlerCallDefault(k) ==
  /\ pc = "idle"
  /\ pc' = "handler"
  /\ caller' = "handler"
  /\ key' = k
  /\ numChordsArg' = NoArg
  /\ numChords' = DefaultNumChords
  /\ UNCHANGED <<locals, fixed>>

\* if (numChords < 2 || numChords > 6) throw; createChordProgression(key, numChords)
HandlerValidate ==
  /\ pc = "handler"
  /\ IF numChords < 2 \/ numChords > 6
     THEN pc' = "handlerThrown" /\ err' = Error(ERR_NUM_CHORDS, <<>>)
     ELSE pc' = "parseKey" /\ err' = err
  /\ UNCHANGED <<args, keyInfo, progression, idx, track, ret, response, fixed>>

\* the return of the try block
HandlerReply ==
  /\ pc = "returned"
  /\ caller = "handler"
  /\ response' = [isError |-> FALSE, content |-> <<"audio", "text">>,
                  audio |-> ret, text |-> "Generated MIDI file",
                  numChords |-> numChords]
  /\ pc' = "responded"
  /\ UNCHANGED <<args, keyInfo, progression, idx, track, ret, err, fixed>>

\* the catch block
HandlerCatch ==
  /\ pc \in {"thrown", "handlerThrown"}
  /\ caller = "handler"
  /\ response' = [isError |-> TRUE, content |-> <<"text">>,
                  audio |-> NoBuffer, text |-> err.kind,
                  numChords |-> 0]
  /\ pc' = "responded"
  /\ UNCHANGED <<args, keyInfo, progression, idx, track, ret, err, fixed>>

\* the invocation is over and its locals are gone
Finish ==
  /\ \/ pc \in {"returned", "thrown"} /\ caller = "direct"
     \/ pc = "responded"
  /\ pc' = "idle"
  /\ caller' = "none"
  /\ key' = <<>>
  /\ numChordsArg' = NoArg
  /\ numChords' = 0
  /\ keyInfo' = NullKey
  /\ progression' = <<>>
  /\ idx' = 0
  /\ track' = <<>>
  /\ ret' = NoBuffer
  /\ err' = NoError
  /\ response' = NoResponse
  /\ completed' = IF completed < MaxCompleted THEN completed + 1 ELSE completed
  /\ UNCHANGED <<tables, call, out>>

Next ==
  \/ \E k \in Keys : \E n \in NumChordsArgs : DirectCall(k, n)
  \/ \E k \in Keys : DirectCallDefault(k)
  \/ \E k \in Keys : \E n \in SchemaNumChords : HandlerCall(k, n)
  \/ \E k \in Keys : HandlerCallDefault(k)
  \/ ParseKey
  \/ ValidateRoot
  \/ ValidateNumChords
  \/ GetProgressionDegrees
  \/ AddChord
  \/ BuildFile
  \/ HandlerValidate
  \/ HandlerReply
  \/ HandlerCatch
  \/ Finish

Spec == Init /\ [][Next]_vars

(***************************************************************************)
(* The functions applied once to arguments drawn from their domains.       *)
(***************************************************************************)
Degrees == 1..MaxDegree

FnCalls ==
  { [fn |-> f, root |-> r, degree |-> d, isMinor |-> m, key |-> <<>>, numChords |-> 0] :
      f \in {"getScaleDegreeNote", "getChordNotes"}, r \in RootNames,
      d \in Degrees, m \in BOOLEAN }
  \cup
  { [fn |-> "createChordProgression", root |-> <<>>, degree |-> 0,
     isMinor |-> FALSE, key |-> k, numChords |-> n] :
      k \in Keys, n \in NumChordsArgs }

InitFn ==
  /\ tables = ModuleTables
  /\ Idle
  /\ completed = 0
  /\ call \in FnCalls
  /\ out = NoOut

ApplyGetScaleDegreeNote ==
  /\ call.fn = "getScaleDegreeNote"
  /\ ~out.done
  /\ out' = [done |-> TRUE,
             res |-> getScaleDegreeNote(tables, call.root, call.degree, call.isMinor)]
  /\ UNCHANGED <<tables, pc, args, locals, completed, call>>

ApplyGetChordNotes ==
  /\ call.fn = "getChordNotes"
  /\ ~out.done
  /\ out' = [done |-> TRUE,
             res |-> getChordNotes(tables, call.root, call.degree, call.isMinor,
                                   DefaultOctave)]
  /\ UNCHANGED <<tables, pc, args, locals, completed, call>>

ApplyCreateChordProgression ==
  /\ call.fn = "createChordProgression"
  /\ ~out.done
  /\ out' = [done |-> TRUE,
             res |-> createChordProgression(tables, call.key, call.numChords)]
  /\ UNCHANGED <<tables, pc, args, locals, completed, call>>

NextFn ==
  \/ ApplyGetScaleDegreeNote
  \/ ApplyGetChordNotes
  \/ ApplyCreateChordProgression

SpecFn == InitFn /\ [][NextFn]_vars

(***************************************************************************)
(* Properties.                                                             *)
(***************************************************************************)
\* parseKey has run in the current invocation
Parsed == pc \in {"validateRoot", "validateNumChords", "getProgressionDegrees",
                  "forEach", "returned", "thrown", "responded"}
\* createChordProgression has ended, by a return or by a throw
Ended == pc \in {"returned", "thrown"}

\* the key strings the README lists, for all roots of the pitch table
ReadmeKeys ==
  UNION {MajorForms(R) \cup {BareForm(R)} \cup SpacedMinor(R) \cup {CompactMinor(R)} :
           R \in RootNames}

\* the pitches of the events of a buffer
PitchesOf(buffer) == [i \in 1..Len(buffer.events) |-> buffer.events[i].pitch]

\* a displayed note "C#5" read back: its name, its octave and its pitch
nameOf(note)   == SubSeq(note, 1, Len(note) - 1)
octaveOf(note) == CHOOSE d \in 0..9 : ToString(d) = note[Len(note)]
classOf(name)  == (CHOOSE i \in 1..12 : midiToNote[i] = name) - 1
isDisplayed(note) ==
  /\ Len(note) >= 2
  /\ \E i \in 1..12 : midiToNote[i] = nameOf(note)
  /\ \E d \in 0..9 : ToString(d) = note[Len(note)]
pitchOf(note)  == 12 * (octaveOf(note) + 1) + classOf(nameOf(note))

C_MAJOR == <<"C">> \o <<" ">> \o MAJOR_WORD
A_MINOR == <<"A">> \o <<" ">> \o MINOR_WORD
BB      == <<"B","b">>

\* C1: for every root R of the pitch table, "R major", "R maj" and "R" parse
\* as (R, Major), and createChordProgression("C major", 4) emits the major
\* triads C4-E4-G4, F4-A4-C5, G4-B4-D5, C4-E4-G4.
C1_MajorMarkerParsesMajor ==
  /\ Parsed =>
       \A R \in RootNames :
          key \in MajorForms(R) \cup {BareForm(R)} => keyInfo = KeyInfo(R, FALSE)
  /\ (Ended /\ key = C_MAJOR /\ numChords = 4) =>
       /\ pc = "returned"
       /\ PitchesOf(ret) =
            << << <<"C","4">>, <<"E","4">>, <<"G","4">> >>,
               << <<"F","4">>, <<"A","4">>, <<"C","5">> >>,
               << <<"G","4">>, <<"B","4">>, <<"D","5">> >>,
               << <<"C","4">>, <<"E","4">>, <<"G","4">> >> >>

\* C2: for every root R of the pitch table, "Rm", "R minor" and "R min" (also
\* with the root letter in lower case) all parse to the same pair: root R with
\* its first letter upper-cased and its accidental kept, mode Minor.
C2_CompactMinorEqualsSpaced ==
  Parsed =>
    \A R \in RootNames :
       key \in SpacedMinor(R) \cup {CompactMinor(R)}
               \cup SpacedMinor(lowerFirst(R)) \cup {CompactMinor(lowerFirst(R))}
         => keyInfo = KeyInfo(R, TRUE)

\* "Bbm" has been parsed
C2_Witness ==
  /\ pc = "validateRoot"
  /\ key = BB \o <<"m">>
  /\ keyInfo = KeyInfo(BB, TRUE)

\* C3: for each of the 17 roots, in every listed key form, and every
\* numChords in 2..6 (4 when omitted), createChordProgression returns, with
\* exactly numChords chords, one per degree of the template and in its order.
C3_EverySupportedKeyCompletes ==
  (Ended /\ key \in ReadmeKeys /\ numChords \in 2..6) =>
     /\ pc = "returned"
     /\ Len(ret.events) = numChords
     /\ ~numChordsArg.given => Len(ret.events) = 4
     /\ progression = patterns[numChords]
     /\ \A i \in 1..Len(ret.events) :
           Return(ret.events[i].pitch) =
             getChordNotes(ModuleTables, keyInfo.root, patterns[numChords][i],
                           keyInfo.isMinor, DefaultOctave)

\* the root token of a key string: what is left of it without the mode words
rootToken(k) == capitalizeFirst(stripModeIndicators(trim(k)))

\* C4: a key without a root token fails with "Invalid key format"; a key whose
\* root token is not an entry of the pitch table fails with "Invalid root
\* note"; a valid key with a numChords outside 2..6 fails with the numChords
\* error; the three messages differ.
C4_ErrorClassification ==
  /\ Ended =>
       /\ rootToken(key) = <<>> => pc = "thrown" /\ err.kind = ERR_KEY_FORMAT
       /\ (rootToken(key) # <<>> /\ rootToken(key) \notin RootNames)
            => pc = "thrown" /\ err.kind = ERR_ROOT_NOTE
       /\ (rootToken(key) \in RootNames /\ numChords \notin 2..6)
            => pc = "thrown" /\ err.kind = ERR_NUM_CHORDS
  /\ Cardinality({ERR_KEY_FORMAT, ERR_ROOT_NOTE, ERR_NUM_CHORDS}) = 3

\* the key of the call does not pass the two key checks of createChordProgression
KeyRejected(k) ==
  \/ parseKey(k).isNull
  \/ isFalsy(ModuleTables.NOTE_TO_MIDI, parseKey(k).root)

\* C5 as stated: createChordProgression validates numChords first, so a call
\* with an invalid key and a numChords outside 2..6 reports the chord-count
\* error.
C5_NumChordsValidatedFirst ==
  (Ended /\ KeyRejected(key) /\ numChords \notin 2..6) =>
     pc = "thrown" /\ err.kind = ERR_NUM_CHORDS

\* C5 amended: createChordProgression validates the key first: a key that
\* does not parse fails with "Invalid key format" and a root that fails the
\* root check fails with "Invalid root note", whatever numChords is; the
\* chord-count error is reported only for a key that passed both key checks.
C5_KeyValidatedFirst ==
  Ended =>
    /\ parseKey(key).isNull => pc = "thrown" /\ err.kind = ERR_KEY_FORMAT
    /\ (~parseKey(key).isNull /\ KeyRejected(key))
         => pc = "thrown" /\ err.kind = ERR_ROOT_NOTE
    /\ (pc = "thrown" /\ err.kind = ERR_NUM_CHORDS)
         => ~KeyRejected(key) /\ numChords \notin 2..6

\* an invalid root and an out-of-range numChords: the root error is reported
C5_Witness ==
  /\ pc = "thrown"
  /\ key = <<"H">> \o <<" ">> \o MAJOR_WORD
  /\ numChords = 7
  /\ err.kind = ERR_ROOT_NOTE

\* C6: for every root of the pitch table, both modes and every degree 1..7,
\* getScaleDegreeNote returns a name that is a key of NOTE_TO_MIDI and whose
\* pitch class is (pitch class of the root + scale offset of the degree) mod 12.
C6_SpellingRoundTrip ==
  (call.fn = "getScaleDegreeNote" /\ out.done /\ call.degree \in 1..7) =>
     LET scale == IF call.isMinor THEN MINOR_SCALE ELSE MAJOR_SCALE
     IN /\ ~out.res.threw
        /\ out.res.val \in DOMAIN NOTE_TO_MIDI
        /\ NOTE_TO_MIDI[out.res.val] % 12 =
             (NOTE_TO_MIDI[call.root] + scale[call.degree]) % 12

\* C7: for every root of the pitch table and every degree 1..7, getChordNotes
\* returns a triad; in Major mode its third is 3 semitones above its root
\* exactly for degrees 2, 3, 6 and 4 semitones otherwise; in Minor mode it is
\* 3 semitones exactly for degrees 1, 4, 5 and 4 semitones otherwise.
C7_DiatonicQuality ==
  (call.fn = "getChordNotes" /\ out.done /\ call.degree \in 1..7) =>
     /\ ~out.res.threw
     /\ Len(out.res.val) = 3
     /\ \A i \in 1..3 : isDisplayed(out.res.val[i])
     /\ LET third == pitchOf(out.res.val[2]) - pitchOf(out.res.val[1])
            minorDegrees == IF call.isMinor THEN {1, 4, 5} ELSE {2, 3, 6}
        IN third = IF call.degree \in minorDegrees THEN 3 ELSE 4

\* C8: wherever getChordNotes returns, its notes are [root, third, fifth] at
\* pitches p, p+3 or p+4, p+7, with p the octave-4 pitch (60..71) of the
\* spelled degree note; each is shown as the sharp name of its pitch class
\* followed by octave floor(pitch/12)-1 (octave 5 above B4); and
\* createChordProgression("A minor", 3) emits A4-C5-E5, D4-F4-A4, E4-G4-B4.
C8_PitchPlacement ==
  /\ (call.fn = "getChordNotes" /\ out.done /\ ~out.res.threw) =>
       LET notes   == out.res.val
           spelled == getScaleDegreeNote(ModuleTables, call.root, call.degree,
                                         call.isMinor).val
           p       == NOTE_TO_MIDI[spelled]
       IN /\ p \in 60..71
          /\ Len(notes) = 3
          /\ \A i \in 1..3 : isDisplayed(notes[i])
          /\ pitchOf(notes[1]) = p
          /\ pitchOf(notes[2]) \in {p + 3, p + 4}
          /\ pitchOf(notes[3]) = p + 7
          /\ \A i \in 1..3 :
                octaveOf(notes[i]) = IF pitchOf(notes[i]) >= 72 THEN 5 ELSE 4
  /\ (call.fn = "createChordProgression" /\ out.done
        /\ call.key = A_MINOR /\ call.numChords = 3) =>
       /\ ~out.res.threw
       /\ PitchesOf(out.res.val) =
            << << <<"A","4">>, <<"C","5">>, <<"E","5">> >>,
               << <<"D","4">>, <<"F","4">>, <<"A","4">> >>,
               << <<"E","4">>, <<"G","4">>, <<"B","4">> >> >>

\* createChordProgression("A minor", 3) has been applied and has returned
C8_Witness ==
  /\ call.fn = "createChordProgression"
  /\ call.key = A_MINOR
  /\ call.numChords = 3
  /\ out.done
  /\ ~out.res.threw

\* C9: an invocation ends either with a complete buffer of numChords chords
\* and no error, or with an error and no buffer, also when the error comes
\* while a later chord is built; the handler then answers isError with a text
\* only, and otherwise with the complete audio.
C9_AllOrNothing ==
  /\ pc = "thrown" => ret = NoBuffer /\ err # NoError
  /\ pc = "returned" =>
       /\ err = NoError
       /\ ret # NoBuffer
       /\ Len(ret.events) = numChords
       /\ \A i \in 1..Len(ret.events) : Len(ret.events[i].pitch) = 3
  /\ pc = "responded" =>
       IF response.isError
       THEN /\ response.content = <<"text">>
            /\ response.audio = NoBuffer
            /\ err # NoError
       ELSE /\ response.content = <<"audio", "text">>
            /\ Len(response.audio.events) = numChords
            /\ err = NoError

\* an error raised while a later chord is built, with chords already on the track
C9_Witness ==
  /\ pc = "thrown"
  /\ Len(track) > 0
  /\ Len(track) < Len(progression)

\* C10: no invocation changes the module-level tables, and whatever came
\* before it, an invocation ends as createChordProgression ends on the same
\* (key, numChords) with the tables as loaded: the same buffer or the same error.
C10_Independence ==
  /\ tables = ModuleTables
  /\ Ended =>
       LET alone == createChordProgression(ModuleTables, key, numChords)
       IN IF pc = "thrown"
          THEN alone.threw /\ err = alone.err
          ELSE ~alone.threw /\ ret = alone.val

\* an invocation that returns after two others have been completed
C10_Witness ==
  /\ completed >= 2
  /\ pc = "returned"
  /\ Len(ret.events) > 0

====
